---- MODULE Spec2Model ----
(***************************************************************************)
(* Model of src/verification_system.py: the face-verification decision     *)
(* (verify_user), the batch evaluator (verify_multiple_users) and the      *)
(* metrics functions (calculate_access_granted_rate, draw_ROC_curve,       *)
(* calculate_far_frr).                                                     *)
(*                                                                         *)
(* Conventions.                                                            *)
(*  - A path string is a sequence of tokens: directory or file names, the  *)
(*    separator "/" and the component ".".                                 *)
(*  - A distance is an integer number of hundredths (30 is 0.30); inf      *)
(*    stands for np.inf.                                                   *)
(*  - A pandas column handed around as a value is [scalar, vals]: a plain  *)
(*    float has scalar = TRUE and one value, a Series has scalar = FALSE.  *)
(*  - A rate is the exact fraction [nan, num, den]; nan = TRUE is the      *)
(*    float NaN that numpy gives for 0/0.                                  *)
(***************************************************************************)
EXTENDS Integers, Sequences, FiniteSets

VARIABLES
    database_path,          \* self.database_path
    acceptance_threshold,   \* self.acceptance_threshold
    incoming_users_path,    \* argument of verify_multiple_users
    listing,                \* what os.listdir gives under incoming_users_path
    pc,                     \* position of verify_multiple_users
    pos,                    \* number of loop bodies completed
    df_users,               \* the table verify_multiple_users grows
    faces_found,            \* outcome of the last DeepFace.find call
    ret,                    \* what the last verify_user call returned
    exc,                    \* exception that left verify_multiple_users
    df_users_authorized,    \* argument of the metrics functions
    df_users_unauthorized,  \* argument of the metrics functions
    out,                    \* outcome of the last metrics call
    rate_arg                \* argument of the last calculate_access_granted_rate

vars == <<database_path, acceptance_threshold, incoming_users_path, listing, pc,
          pos, df_users, faces_found, ret, exc, df_users_authorized,
          df_users_unauthorized, out, rate_arg>>

pipeline_vars == <<database_path, acceptance_threshold, incoming_users_path,
                   listing, pc, pos, df_users, faces_found, ret, exc>>

metrics_vars == <<df_users_authorized, df_users_unauthorized, out, rate_arg>>

(***************************************************************************)
(* Bounds of the model.                                                    *)
(***************************************************************************)
MaxQueries == 2     \* query images in one incoming population
MaxMatches == 2     \* rows of one matcher result
MaxRecords == 2     \* records in one population given to the metrics

inf == 999                  \* np.inf
DefaultThreshold == 50      \* acceptance_threshold: float = 0.5

Labels == {"1", "2"}                \* identity folders
Photos == {"p.jpg", "q.jpg"}        \* query image files
GalleryImages == {"g.jpg"}          \* reference image files
Distances == {20, 40}               \* finite distances the matcher reports
MetricDistances == {30, 90, inf}    \* distances in the tables given to the metrics
DTypes == {"object", "bool"}        \* dtype of an is_access_granted column
Thresholds == {30, DefaultThreshold} \* acceptance thresholds
DatabasePaths ==
    { <<".">>,
      <<"database">>,
      <<"data", "/", "database">>,
      <<"/", "data", "/", "database">> }
IncomingPaths ==
    { <<"incoming_users", "/", "authorized_users">>,
      <<"incoming_users", "/", "unauthorized_users">> }

(***************************************************************************)
(* Paths.                                                                  *)
(***************************************************************************)
IsName(t) == t # "/" /\ t # "."

\* os.path.join(a, b)
os_path_join(a, b) ==
    IF a = <<>> THEN b
    ELSE IF a[Len(a)] = "/" THEN a \o b
    ELSE a \o <<"/">> \o b

\* Path(x).parts: the root, then the names; separators and "." are dropped.
Path_parts(x) ==
    IF x # <<>> /\ Head(x) = "/"
    THEN <<"/">> \o SelectSeq(Tail(x), IsName)
    ELSE SelectSeq(x, IsName)

\* db_path argument of DeepFace.find
db_path == os_path_join(database_path, <<"authorized_users">>)

\* The file of gallery identity `label`, as DeepFace.find names it.
GalleryFile(label, image) ==
    os_path_join(os_path_join(db_path, <<label>>), <<image>>)

(***************************************************************************)
(* The matcher, DeepFace.find: a failure, or the rows under the threshold, *)
(* best first.                                                             *)
(***************************************************************************)
Rows ==
    { [identity |-> GalleryFile(l, g), distance |-> d] :
        l \in Labels, g \in GalleryImages,
        d \in {x \in Distances : x <= acceptance_threshold} }

Ascending(s) == \A i \in 1..(Len(s) - 1) : s[i].distance <= s[i + 1].distance

Frames ==
    { s \in UNION { [1..n -> Rows] : n \in 0..MaxMatches } : Ascending(s) }

FindOutcomes ==
    { [called |-> TRUE, raises |-> TRUE, rows |-> <<>>] }
    \cup { [called |-> TRUE, raises |-> FALSE, rows |-> s] : s \in Frames }

NotCalled == [called |-> FALSE, raises |-> FALSE, rows |-> <<>>]

(***************************************************************************)
(* verify_user                                                             *)
(***************************************************************************)
Scalar(v) == [scalar |-> TRUE, vals |-> <<v>>]
Series(s) == [scalar |-> FALSE, vals |-> s]

NoReturn == [granted |-> FALSE, distance |-> Series(<<>>)]

\* faces_found[0]["identity"].apply(lambda x: Path(x).parts[3])
PartsIndex == 3

\* The lambda is applied to every row; it raises IndexError on a path of
\* fewer than PartsIndex + 1 parts.
ApplyRaises(rows) ==
    \E i \in 1..Len(rows) : Len(Path_parts(rows[i].identity)) < PartsIndex + 1

predicted_user_name(rows) == Path_parts(rows[1].identity)[PartsIndex + 1]

\* The distance verify_user returns for a non-empty frame:
\* faces_found[0]["distance"], the column.
ReturnedDistance(rows) == Series([i \in 1..Len(rows) |-> rows[i].distance])

\* A faulty variant of NoMatchReturn: the no-match distance is 0, the best
\* possible score, instead of +inf.
NoMatchReturn_ZeroDistance ==
    [exc |-> "none", granted |-> FALSE, distance |-> Scalar(0)]

\* The value verify_user returns when no match is found.
NoMatchReturn == [exc |-> "none", granted |-> FALSE, distance |-> Scalar(inf)]

verify_user(user_name, found) ==
    IF found.raises
    THEN [exc |-> "MatcherError", granted |-> FALSE, distance |-> Series(<<>>)]
    ELSE IF found.rows = <<>>
    THEN NoMatchReturn
    ELSE IF ApplyRaises(found.rows)
    THEN [exc |-> "IndexError", granted |-> FALSE, distance |-> Series(<<>>)]
    ELSE [exc |-> "none",
          granted |-> (user_name = predicted_user_name(found.rows)),
          distance |-> ReturnedDistance(found.rows)]

(***************************************************************************)
(* verify_multiple_users                                                   *)
(***************************************************************************)
\* A directory listing: the identity folders in os.listdir order, each with
\* its image files in os.listdir order.
NoRepeat(s) == \A i, j \in 1..Len(s) : i # j => s[i] # s[j]

PhotoLists ==
    { s \in UNION { [1..n -> Photos] : n \in 0..Cardinality(Photos) } : NoRepeat(s) }

UserLists ==
    { s \in UNION { [1..n -> Labels] : n \in 0..Cardinality(Labels) } : NoRepeat(s) }

RECURSIVE SumLen(_)
SumLen(s) == IF s = <<>> THEN 0 ELSE Len(Head(s).photos) + SumLen(Tail(s))

Listings ==
    { l \in UNION { [1..Len(u) -> [user_name : Labels, photos : PhotoLists]] :
                      u \in UserLists } :
        /\ \E u \in UserLists :
             /\ Len(u) = Len(l)
             /\ \A i \in 1..Len(l) : l[i].user_name = u[i]
        /\ SumLen(l) <= MaxQueries }

\* The (user_name, user_photo) pairs in the order the nested loops visit them.
RECURSIVE Queries(_)
Queries(l) ==
    IF l = <<>> THEN <<>>
    ELSE [i \in 1..Len(Head(l).photos) |->
            [user_name |-> Head(l).user_name, user_photo |-> Head(l).photos[i]]]
         \o Queries(Tail(l))

ImagePath(root, q) ==
    os_path_join(os_path_join(root, <<q.user_name>>), <<q.user_photo>>)

\* pd.DataFrame({..., "distance": distance}, index=[0]): a scalar is
\* broadcast, a Series is aligned on index label 0.
df_user(image_path, r) ==
    [image_path |-> image_path,
     is_access_granted |-> r.granted,
     distance |-> r.distance.vals[1]]

\* A faulty variant of concat: the new row is put first.
concat_Prepend(table, row) == <<row>> \o table

\* pd.concat([df_users, df_user], ignore_index=True)
concat(table, row) == table \o <<row>>

Start ==
    /\ pc = "idle"
    /\ \E root \in IncomingPaths, l \in Listings :
         /\ incoming_users_path' = root
         /\ listing' = l
    /\ df_users' = <<>>
    /\ pos' = 0
    /\ pc' = "loop"
    /\ UNCHANGED <<database_path, acceptance_threshold, faces_found, ret, exc>>
    /\ UNCHANGED metrics_vars

LoopBody ==
    /\ pc = "loop"
    /\ pos < Len(Queries(listing))
    /\ \E found \in FindOutcomes :
         LET q == Queries(listing)[pos + 1]
             r == verify_user(q.user_name, found)
         IN  /\ faces_found' = found
             /\ IF r.exc # "none"
                THEN /\ exc' = r.exc
                     /\ pc' = "raised"
                     /\ UNCHANGED <<ret, df_users, pos>>
                ELSE /\ ret' = [granted |-> r.granted, distance |-> r.distance]
                     /\ df_users' =
                          concat(df_users,
                                 df_user(ImagePath(incoming_users_path, q), r))
                     /\ pos' = pos + 1
                     /\ UNCHANGED <<exc, pc>>
    /\ UNCHANGED <<database_path, acceptance_threshold, incoming_users_path,
                   listing>>
    /\ UNCHANGED metrics_vars

Return ==
    /\ pc = "loop"
    /\ pos = Len(Queries(listing))
    /\ pc' = "returned"
    /\ UNCHANGED <<database_path, acceptance_threshold, incoming_users_path,
                   listing, pos, df_users, faces_found, ret, exc>>
    /\ UNCHANGED metrics_vars

(***************************************************************************)
(* The metrics functions.  A table is [rows, dtype]: the rows' columns the *)
(* metrics read, and the dtype of the is_access_granted column ("object"   *)
(* for the table pd.DataFrame(columns=[...]) that verify_multiple_users    *)
(* starts from).                                                           *)
(***************************************************************************)
MetricRows == [is_access_granted : BOOLEAN, distance : MetricDistances]

\* A column that holds verdicts has the dtype pandas infers from them; an
\* empty column keeps the dtype it was created with.
Tables ==
    { t \in [rows : UNION { [1..n -> MetricRows] : n \in 0..MaxRecords },
             dtype : DTypes] :
        t.rows # <<>> => t.dtype = "bool" }

\* pd.DataFrame(columns=[...]): no rows, object columns.
NoTable == [rows |-> <<>>, dtype |-> "object"]

NaN == [nan |-> TRUE, num |-> 0, den |-> 1]
Rate(n, d) == [nan |-> FALSE, num |-> n, den |-> d]

\* numpy's int64 / int64: 0/0 is nan (a RuntimeWarning, no exception).  The
\* numerators divided here never exceed their denominators.
np_divide(n, d) == IF d = 0 THEN NaN ELSE Rate(n, d)

\* A faulty variant of OneMinus: the complement is forgotten.
OneMinus_Forgotten(r) == r

\* 1 - r
OneMinus(r) == IF r.nan THEN NaN ELSE Rate(r.den - r.num, r.den)

\* df["is_access_granted"].sum()
GrantedCount(rows) ==
    Cardinality({ i \in 1..Len(rows) : rows[i].is_access_granted })

\* The outcome of a call: the function, a returned value or a raised
\* exception, the confusion matrix it unpacked, the rates it returned and the
\* curve it computed.
Value(fn, cm, rates) ==
    [fn |-> fn, kind |-> "value", exc |-> "none", cm |-> cm, rates |-> rates,
     curve |-> <<>>]
Raised(fn, e) ==
    [fn |-> fn, kind |-> "error", exc |-> e, cm |-> <<>>, rates |-> <<>>,
     curve |-> <<>>]

NoOut ==
    [fn |-> "none", kind |-> "none", exc |-> "none", cm |-> <<>>, rates |-> <<>>,
     curve |-> <<>>]

\* df_users["is_access_granted"].sum() / len(df_users): the sum of an
\* object column is a Python int, and int / 0 raises; the sum of any other
\* column is a numpy scalar, and 0 / 0 is nan.
calculate_access_granted_rate(df) ==
    IF Len(df.rows) = 0
    THEN IF df.dtype = "object"
         THEN Raised("calculate_access_granted_rate", "ZeroDivisionError")
         ELSE Value("calculate_access_granted_rate", <<>>, <<NaN>>)
    ELSE Value("calculate_access_granted_rate", <<>>,
               <<Rate(GrantedCount(df.rows), Len(df.rows))>>)

\* pd.concat([df_users_authorized, df_users_unauthorized], axis=0)
df_concatenated(a, u) == a.rows \o u.rows

\* [True] * len(df_users_authorized) + [False] * len(df_users_unauthorized)
true_labels(a, u) ==
    [i \in 1..(Len(a.rows) + Len(u.rows)) |-> i <= Len(a.rows)]

predicted_labels(a, u) ==
    [i \in 1..(Len(a.rows) + Len(u.rows)) |->
        df_concatenated(a, u)[i].is_access_granted]

\* sklearn's confusion_matrix(y_true, y_pred).ravel(): the matrix is over the
\* sorted labels that occur in y_true or y_pred, so it is 2x2 only when both
\* True and False occur.
OccurringLabels(y_true, y_pred) ==
    LET occurs(b) == \E i \in 1..Len(y_true) : y_true[i] = b \/ y_pred[i] = b
    IN  (IF occurs(FALSE) THEN <<FALSE>> ELSE <<>>)
        \o (IF occurs(TRUE) THEN <<TRUE>> ELSE <<>>)

confusion_matrix_ravel(y_true, y_pred) ==
    LET lab == OccurringLabels(y_true, y_pred)
        n == Len(lab)
        count(t, p) ==
            Cardinality({ i \in 1..Len(y_true) : y_true[i] = t /\ y_pred[i] = p })
    IN  [k \in 1..(n * n) |-> count(lab[((k - 1) \div n) + 1], lab[((k - 1) % n) + 1])]

\* tn, fp, fn, tp = ....ravel() raises ValueError unless there are 4 values.
UnpackRaises(cm) == Len(cm) # 4

calculate_far_frr(a, u) ==
    LET cm == confusion_matrix_ravel(true_labels(a, u), predicted_labels(a, u))
    IN  IF UnpackRaises(cm)
        THEN Raised("calculate_far_frr", "ValueError")
        ELSE LET tn == cm[1]
                 fp == cm[2]
                 fn == cm[3]
                 tp == cm[4]
                 tpr == np_divide(tp, tp + fn)
                 fpr == np_divide(fp, fp + tn)
                 far == OneMinus(tpr)
                 frr == fpr
             IN  Value("calculate_far_frr", cm, <<far, frr>>)

\* The names bound at the top level of the module: its imports and its class.
ModuleGlobals ==
    {"os", "Path", "np", "pd", "DeepFace", "confusion_matrix", "roc_curve",
     "tqdm", "plt", "Tuple", "VerificationSystem"}

\* np.where(np.isinf(distances), <threshold>, distances)
RemapInf(scores, threshold) ==
    [i \in 1..Len(scores) |-> IF scores[i] = inf THEN threshold ELSE scores[i]]

\* sklearn's roc_curve(y_true, y_score), before it drops collinear points: a
\* record is predicted positive when its score is >= the candidate
\* threshold; one point per distinct score, from the largest down.
RECURSIVE Descending(_)
Descending(S) ==
    IF S = {} THEN <<>>
    ELSE LET m == CHOOSE x \in S : \A y \in S : y <= x
         IN  <<m>> \o Descending(S \ {m})

roc_curve(y_true, y_score) ==
    LET ts == Descending({ y_score[i] : i \in 1..Len(y_score) })
        P == { i \in 1..Len(y_true) : y_true[i] }
        N == { i \in 1..Len(y_true) : ~y_true[i] }
        hit(S, t) == Cardinality({ i \in S : y_score[i] >= t })
    IN  [k \in 1..Len(ts) |->
            [threshold |-> ts[k],
             fpr |-> np_divide(hit(N, ts[k]), Cardinality(N)),
             tpr |-> np_divide(hit(P, ts[k]), Cardinality(P))]]

\* draw_ROC_curve is a static method: it reads the threshold from the global
\* name verification_system, not from an instance.
draw_ROC_curve(a, u, globals) ==
    IF "verification_system" \notin DOMAIN globals
    THEN Raised("draw_ROC_curve", "NameError")
    ELSE LET concatenated == df_concatenated(a, u)
             distances ==
                 RemapInf([i \in 1..Len(concatenated) |-> concatenated[i].distance],
                          globals["verification_system"].acceptance_threshold)
             curve == roc_curve(true_labels(a, u), distances)
             cm == confusion_matrix_ravel(true_labels(a, u), predicted_labels(a, u))
         IN  IF UnpackRaises(cm)
             THEN Raised("draw_ROC_curve", "ValueError")
             ELSE [Value("draw_ROC_curve", cm, <<>>) EXCEPT !.curve = curve]

\* The module namespace at the time of a call: name -> value.
GlobalNamespace == [n \in ModuleGlobals |-> 0]

CalculateAccessGrantedRate ==
    /\ \E df \in {df_users_authorized, df_users_unauthorized} :
         /\ rate_arg' = df
         /\ out' = calculate_access_granted_rate(df)
    /\ UNCHANGED <<df_users_authorized, df_users_unauthorized>>
    /\ UNCHANGED pipeline_vars

DrawROCCurve ==
    /\ out' = draw_ROC_curve(df_users_authorized, df_users_unauthorized,
                             GlobalNamespace)
    /\ UNCHANGED <<df_users_authorized, df_users_unauthorized, rate_arg>>
    /\ UNCHANGED pipeline_vars

CalculateFarFrr ==
    /\ out' = calculate_far_frr(df_users_authorized, df_users_unauthorized)
    /\ UNCHANGED <<df_users_authorized, df_users_unauthorized, rate_arg>>
    /\ UNCHANGED pipeline_vars

PipelineIdle ==
    /\ database_path = <<"data", "/", "database">>
    /\ acceptance_threshold = DefaultThreshold
    /\ incoming_users_path = <<>>
    /\ listing = <<>>
    /\ pc = "idle"
    /\ pos = 0
    /\ df_users = <<>>
    /\ faces_found = NotCalled
    /\ ret = NoReturn
    /\ exc = "none"

InitMetrics ==
    /\ PipelineIdle
    /\ df_users_authorized \in Tables
    /\ df_users_unauthorized \in Tables
    /\ out = NoOut
    /\ rate_arg = NoTable

NextMetrics == CalculateAccessGrantedRate \/ CalculateFarFrr \/ DrawROCCurve

SpecMetrics == InitMetrics /\ [][NextMetrics]_vars


MetricsIdle ==
    /\ df_users_authorized = NoTable
    /\ df_users_unauthorized = NoTable
    /\ out = NoOut
    /\ rate_arg = NoTable

Init ==
    /\ database_path \in DatabasePaths
    /\ acceptance_threshold \in Thresholds
    /\ incoming_users_path = <<>>
    /\ listing = <<>>
    /\ pc = "idle"
    /\ pos = 0
    /\ df_users = <<>>
    /\ faces_found = NotCalled
    /\ ret = NoReturn
    /\ exc = "none"
    /\ MetricsIdle

Next == Start \/ LoopBody \/ Return

Spec == Init /\ [][Next]_vars

(***************************************************************************)
(* Properties.                                                             *)
(***************************************************************************)
\* The last verify_user call of the batch returned (it did not raise).
Returned == faces_found.called /\ pc # "raised" /\ pos >= 1

\* The query the last completed loop body was about.
LastQuery == Queries(listing)[pos]

LastRecord == df_users[pos]

\* The identity folder a gallery file lies in: the label of a match.
LabelOf(identity) ==
    CHOOSE l \in Labels : \E g \in GalleryImages : identity = GalleryFile(l, g)

\* C1: for every claimed identity and every non-empty matcher result,
\* verify_user returns granted = (the identity folder of the first-listed
\* match = the claimed identity), whatever the distance.
C1_GrantedIffBestMatchIsClaimed ==
    (Returned /\ faces_found.rows # <<>>) =>
        ret.granted = (LabelOf(faces_found.rows[1].identity) = LastQuery.user_name)

\* C2: when the matcher returns an empty result, verify_user returns
\* (False, +inf), for every claimed identity.
C2_NoMatchIsDeniedWithInf ==
    (faces_found.called /\ ~faces_found.raises /\ faces_found.rows = <<>>) =>
        /\ pc # "raised"
        /\ pos >= 1
        /\ ret = [granted |-> FALSE, distance |-> Scalar(inf)]

C2_Witness ==
    /\ faces_found.called /\ ~faces_found.raises /\ faces_found.rows = <<>>
    /\ pos = 2
    /\ ret = [granted |-> FALSE, distance |-> Scalar(inf)]
    /\ df_users[1].is_access_granted

\* C3: for every non-empty matcher result the distance verify_user returns,
\* and the distance stored in the record, is the single distance of the
\* first match.
C3_DistanceIsBestMatchScalar ==
    (Returned /\ faces_found.rows # <<>>) =>
        /\ ret.distance = Scalar(faces_found.rows[1].distance)
        /\ LastRecord.distance = faces_found.rows[1].distance

\* The number of image files in the folders before the k-th.
RECURSIVE PhotosBefore(_, _)
PhotosBefore(l, k) ==
    IF k <= 1 THEN 0 ELSE Len(l[k - 1].photos) + PhotosBefore(l, k - 1)

TotalImages == PhotosBefore(listing, Len(listing) + 1)

\* The path of the i-th image: folders in listing order, then the images of
\* each folder in listing order.
ExpectedImagePath(i) ==
    LET k == CHOOSE j \in 1..Len(listing) :
                 /\ PhotosBefore(listing, j) < i
                 /\ i <= PhotosBefore(listing, j) + Len(listing[j].photos)
    IN  incoming_users_path
        \o <<"/", listing[k].user_name, "/",
             listing[k].photos[i - PhotosBefore(listing, k)]>>

\* C4: after the k-th query is processed the table holds k records and
\* record i refers to the i-th query in iteration order; the returned table
\* has one record per query image; a query with no face detected contributes
\* the record (False, +inf) and does not end the batch.
C4_OneRecordPerQueryInOrder ==
    /\ Len(df_users) = pos
    /\ pos <= TotalImages
    /\ \A i \in 1..Len(df_users) : df_users[i].image_path = ExpectedImagePath(i)
    /\ pc = "returned" => Len(df_users) = TotalImages
    /\ (faces_found.called /\ ~faces_found.raises /\ faces_found.rows = <<>>) =>
          /\ pc \in {"loop", "returned"}
          /\ LastRecord = [image_path |-> ExpectedImagePath(pos),
                           is_access_granted |-> FALSE,
                           distance |-> inf]

C4_Witness ==
    /\ pc = "returned"
    /\ Len(df_users) = 2
    /\ df_users[1].distance = inf
    /\ ~df_users[1].is_access_granted
    /\ df_users[2].is_access_granted
    /\ df_users[1].image_path # df_users[2].image_path
    /\ Len(listing) = 2

\* C5: when the matcher call raises for a query, verify_multiple_users
\* records the query as denied with infinite distance and goes on.
C5_MatcherFailureIsDeniedRecord ==
    (faces_found.called /\ faces_found.raises) =>
        /\ pc \in {"loop", "returned"}
        /\ pos >= 1
        /\ ~LastRecord.is_access_granted
        /\ LastRecord.distance = inf

\* The records of a table whose verdict is g.
CountGranted(df, g) ==
    Cardinality({ i \in 1..Len(df.rows) : df.rows[i].is_access_granted = g })

TP == CountGranted(df_users_authorized, TRUE)
FN == CountGranted(df_users_authorized, FALSE)
FP == CountGranted(df_users_unauthorized, TRUE)
TN == CountGranted(df_users_unauthorized, FALSE)

RatEq(a, b) == ~a.nan /\ ~b.nan /\ a.num * b.den = b.num * a.den

\* C6: for all populations the metrics functions obtain the confusion
\* matrix TN, FP, FN, TP of the records' verdicts, whose counts sum to
\* len(authorized) + len(unauthorized).
C6_ConfusionMatrixCounts ==
    (out.fn \in {"draw_ROC_curve", "calculate_far_frr"}) =>
        /\ out.kind = "value"
        /\ out.cm = <<TN, FP, FN, TP>>
        /\ out.cm[1] + out.cm[2] + out.cm[3] + out.cm[4]
             = Len(df_users_authorized.rows) + Len(df_users_unauthorized.rows)

BothNonEmpty ==
    Len(df_users_authorized.rows) > 0 /\ Len(df_users_unauthorized.rows) > 0

Verdicts(df) == [i \in 1..Len(df.rows) |-> df.rows[i].is_access_granted]

\* C7: for non-empty populations calculate_far_frr returns
\* FAR = FN / (TP + FN) and FRR = FP / (FP + TN); for authorized verdicts
\* (true, false) and unauthorized verdicts (false, true) both are 1/2.
C7_FarFrrFormula ==
    (out.fn = "calculate_far_frr" /\ BothNonEmpty) =>
        /\ out.kind = "value"
        /\ RatEq(out.rates[1], Rate(FN, TP + FN))
        /\ RatEq(out.rates[2], Rate(FP, FP + TN))
        /\ (/\ Verdicts(df_users_authorized) = <<TRUE, FALSE>>
            /\ Verdicts(df_users_unauthorized) = <<FALSE, TRUE>>)
              => /\ RatEq(out.rates[1], Rate(1, 2))
                 /\ RatEq(out.rates[2], Rate(1, 2))

C7_Witness ==
    /\ out.fn = "calculate_far_frr"
    /\ out.kind = "value"
    /\ df_users_authorized.rows =
         <<[is_access_granted |-> TRUE, distance |-> 30],
           [is_access_granted |-> FALSE, distance |-> 90]>>
    /\ df_users_unauthorized.rows =
         <<[is_access_granted |-> FALSE, distance |-> 90],
           [is_access_granted |-> TRUE, distance |-> 30]>>
    /\ out.cm = <<1, 1, 1, 1>>
    /\ RatEq(out.rates[1], Rate(1, 2))
    /\ RatEq(out.rates[2], Rate(1, 2))

\* C8: when the authorized or the unauthorized population is empty,
\* calculate_far_frr ends in an error; it returns no pair of rates.
C8_EmptyClassIsError ==
    (out.fn = "calculate_far_frr" /\ ~BothNonEmpty) => out.kind = "error"

\* C9: calculate_access_granted_rate returns granted_count / total_count
\* for a non-empty population, and ends in an error for an empty one.
C9_GrantRateOrError ==
    (out.fn = "calculate_access_granted_rate") =>
        IF Len(rate_arg.rows) = 0
        THEN out.kind = "error"
        ELSE /\ out.kind = "value"
             /\ RatEq(out.rates[1],
                      Rate(CountGranted(rate_arg, TRUE), Len(rate_arg.rows)))

\* The scores of the claim's sweep: every infinite distance replaced by the
\* acceptance threshold of this run's VerificationSystem.
ClaimedScores ==
    RemapInf([i \in 1..Len(df_users_authorized.rows \o df_users_unauthorized.rows) |->
                 (df_users_authorized.rows \o df_users_unauthorized.rows)[i].distance],
             acceptance_threshold)

\* The claim's point for candidate threshold t: predicted positive is
\* distance <= t, the authorized records are the positive class.
ClaimedPoint(t) ==
    LET nA == Len(df_users_authorized.rows)
        n == Len(ClaimedScores)
        hitA == Cardinality({ i \in 1..nA : ClaimedScores[i] <= t })
        hitU == Cardinality({ i \in (nA + 1)..n : ClaimedScores[i] <= t })
    IN  [threshold |-> t,
         fpr |-> np_divide(hitU, n - nA),
         tpr |-> np_divide(hitA, nA)]

\* C10: draw_ROC_curve computes, for each candidate threshold among the
\* observed scores, the (FPR, TPR) of "distance <= threshold", the infinite
\* distances first replaced by this run's acceptance threshold.
C10_RocCurveOfDistanceAtMostT ==
    (out.fn = "draw_ROC_curve" /\ BothNonEmpty) =>
        /\ out.kind = "value"
        /\ { out.curve[k] : k \in 1..Len(out.curve) }
             = { ClaimedPoint(ClaimedScores[i]) : i \in 1..Len(ClaimedScores) }

====
